---- MODULE Spec2Model ----
(***************************************************************************)
(* Hex map, edge map, move-cost evaluator and reachability engine of       *)
(* wraithsong (src/map_logic.py, src/move_logic.py, src/gameobjects.py).   *)
(*                                                                         *)
(* Python values are modelled as follows.                                  *)
(*   - A Hex is the record of its three axis attributes.                   *)
(*   - An Edge is the record of its four attributes; Edge.__eq__ and       *)
(*     Edge.__hash__ look at hex_field_1 and hex_field_2 only.             *)
(*   - A game object is a record whose DOMAIN is the set of attributes     *)
(*     the object has, so hasattr(o, a) is a \in DOMAIN o.                 *)
(*   - A dict is the sequence of its items [k, v] in insertion order.      *)
(*   - A call returns Ok(value) or Raise(exception name).                  *)
(***************************************************************************)
EXTENDS Integers, Sequences, FiniteSets, TLC

VARIABLES
    hex_map,        \* HexMap.hex_map: dict Hex -> list of game objects
    edge_map,       \* EdgeMap.edge_map: dict Edge -> list of game objects
    appended,       \* how many append calls have added a game object
    graph,          \* the Graph built over the maps, or NoGraph
    distances,      \* Graph.djikstra: local dict distances
    unvisited,      \* Graph.djikstra: local set unvisited
    pc,             \* "idle" between calls, "loop" inside the while loop of
                    \* djikstra, "returned" when a call has ended
    ret             \* the call that has ended: name, arguments and result

vars == <<hex_map, edge_map, appended, graph, distances, unvisited, pc, ret>>

-----------------------------------------------------------------------------
(* Bounds of the model. *)

\* most game objects the append calls add to the maps of Spec
MaxObjects == 2
\* most game objects the append calls add to the maps of SpecCost
MaxCostObjects == 3
\* most game objects the append calls add to the edge map of SpecGraph
MaxEdgeObjects == 1
\* largest small move_cost_limit handed to djikstra
MaxLimit == 1

\* most game objects the append calls add to the maps of SpecBridge
MaxBridgeObjects == 3

\* largest axis value of the hexes and map bounds SpecHex passes to calls
MaxCoordinate == 1

-----------------------------------------------------------------------------
(* Call results. *)

Ok(v) == [raised |-> "", value |-> v]

Raise(e) == [raised |-> e]

None == Ok("None")

-----------------------------------------------------------------------------
(* src/map_logic.py: class Hex *)

Hex(q, r) == [q_axis |-> q, r_axis |-> r, s_axis |-> (0 - q) - r]

\* Hex.directions_axial, indexed 1..6 for the directions 0..5
directions_axial ==
    << <<1, -1>>, <<1, 0>>, <<0, 1>>, <<-1, 1>>, <<-1, 0>>, <<0, -1>> >>

\* Python list indexing of directions_axial: negative indices count from the
\* end, anything outside -6..5 raises IndexError.
DirectionIndexable(direction) == direction >= -6 /\ direction <= 5

DirectionSlot(direction) ==
    IF direction >= 0 THEN direction + 1 ELSE direction + 7

\* Hex.get_neighbour_hex, for an indexable direction
get_neighbour_hex(hex_field, direction) ==
    Hex(hex_field.q_axis + directions_axial[DirectionSlot(direction)][1],
        hex_field.r_axis + directions_axial[DirectionSlot(direction)][2])

\* a faulty ordered_hex_pair that leaves the pair as it is given
UnorderedHexPair(hex1, hex2) == <<hex1, hex2>>

\* Hex.ordered_hex_pair
ordered_hex_pair(hex1, hex2) ==
    IF hex1.q_axis < hex2.q_axis
       \/ (hex1.q_axis = hex2.q_axis /\ hex1.r_axis < hex2.r_axis)
    THEN <<hex1, hex2>>
    ELSE <<hex2, hex1>>

\* Edge.__init__
Edge(hex_field_1, hex_field_2, spawn_direction) ==
    [spawn_hex |-> hex_field_1,
     spawn_direction |-> spawn_direction,
     hex_field_1 |-> ordered_hex_pair(hex_field_1, hex_field_2)[1],
     hex_field_2 |-> ordered_hex_pair(hex_field_1, hex_field_2)[2]]

\* a faulty Edge.__eq__ that also compares the spawn hex and direction
EdgeEqWithSpawn(e1, e2) == e1 = e2

\* Edge.__eq__
EdgeEq(e1, e2) ==
    e1.hex_field_1 = e2.hex_field_1 /\ e1.hex_field_2 = e2.hex_field_2

\* the tuple Edge.__hash__ hashes
EdgeHashed(e) == <<e.hex_field_1, e.hex_field_2>>

\* Hex.get_edge_by_direction
get_edge_by_direction(hex_field, direction) ==
    IF direction < 0 \/ direction > 5
    THEN Raise("ValueError")
    ELSE Ok(Edge(ordered_hex_pair(hex_field,
                                  get_neighbour_hex(hex_field, direction))[1],
                 ordered_hex_pair(hex_field,
                                  get_neighbour_hex(hex_field, direction))[2],
                 direction))

\* a faulty hex_direction that takes every other pair of hexes for north-west
\* neighbours
HexDirectionUnchecked(hex_field_1, hex_field_2) ==
    LET delta_q == hex_field_2.q_axis - hex_field_1.q_axis
        delta_r == hex_field_2.r_axis - hex_field_1.r_axis
    IN  IF delta_q = 1 /\ delta_r = -1 THEN Ok(0)
        ELSE IF delta_q = 1 /\ delta_r = 0 THEN Ok(1)
        ELSE IF delta_q = 0 /\ delta_r = 1 THEN Ok(2)
        ELSE IF delta_q = -1 /\ delta_r = 1 THEN Ok(3)
        ELSE IF delta_q = -1 /\ delta_r = 0 THEN Ok(4)
        ELSE Ok(5)

\* Hex.hex_direction
hex_direction(hex_field_1, hex_field_2) ==
    LET delta_q == hex_field_2.q_axis - hex_field_1.q_axis
        delta_r == hex_field_2.r_axis - hex_field_1.r_axis
    IN  IF delta_q = 1 /\ delta_r = -1 THEN Ok(0)
        ELSE IF delta_q = 1 /\ delta_r = 0 THEN Ok(1)
        ELSE IF delta_q = 0 /\ delta_r = 1 THEN Ok(2)
        ELSE IF delta_q = -1 /\ delta_r = 1 THEN Ok(3)
        ELSE IF delta_q = -1 /\ delta_r = 0 THEN Ok(4)
        ELSE IF delta_q = 0 /\ delta_r = -1 THEN Ok(5)
        ELSE Raise("ValueError")

-----------------------------------------------------------------------------
(* src/gameobjects.py: Terrain and Structure objects.  The attributes of a  *)
(* type come from terrain.json / structure.json; a type the file does not   *)
(* list gets no attributes at all.                                          *)

\* Terrain.__init__ with the attributes attrs of its type
Terrain(terrain_type, attrs) ==
    [a \in {"cls", "terrain_type"} \cup DOMAIN attrs |->
        IF a = "cls" THEN "Terrain"
        ELSE IF a = "terrain_type" THEN terrain_type
        ELSE attrs[a]]

\* Structure.__init__ with the attributes attrs of its type
Structure(structure_type, attrs) ==
    [a \in {"cls", "terrain_type"} \cup DOMAIN attrs |->
        IF a = "cls" THEN "Structure"
        ELSE IF a = "terrain_type" THEN structure_type
        ELSE attrs[a]]

IsTerrain(game_object) == game_object.cls = "Terrain"

IsStructure(game_object) == game_object.cls = "Structure"

hasattr(game_object, a) == a \in DOMAIN game_object

\* getattr(game_object, "movement_cost", 10000)
LARGE == 10000

\* a faulty getattr whose default is 0
MovementCostDefaultZero(game_object) ==
    IF hasattr(game_object, "movement_cost")
    THEN game_object.movement_cost
    ELSE 0

MovementCostOf(game_object) ==
    IF hasattr(game_object, "movement_cost")
    THEN game_object.movement_cost
    ELSE LARGE

\* terrain.json as Terrain.__init__ and fill_map_with_terrain load it: the
\* terrain of scenario S3, a terrain of cost 0, one without a cost, a
\* second edge terrain with a condition of its own and a second bridgeable
\* one
terrain_data ==
    [plain |-> [movement_cost |-> 1],
     track |-> [movement_cost |-> 0],
     rock  |-> [texture |-> "rock"],
     river |-> [movement_cost |-> 4, terrain_condition |-> "bridgeable",
                edgeobject |-> TRUE],
     cliff |-> [movement_cost |-> 3, terrain_condition |-> "climb",
                edgeobject |-> TRUE],
     stream |-> [movement_cost |-> 2, terrain_condition |-> "bridgeable",
                 edgeobject |-> TRUE]]

\* structure.json as Structure.__init__ loads it
structure_data ==
    [bridge |-> [movement_cost |-> 0, structure_condition |-> "bridge"],
     road   |-> [movement_cost |-> 2]]

Plain == Terrain("plain", terrain_data.plain)

Track == Terrain("track", terrain_data.track)

Rock == Terrain("rock", terrain_data.rock)

River == Terrain("river", terrain_data.river)

Cliff == Terrain("cliff", terrain_data.cliff)

Stream == Terrain("stream", terrain_data.stream)

Bridge == Structure("bridge", structure_data.bridge)

Road == Structure("road", structure_data.road)

\* "bridgeable" in terrain_condition is a substring test; of the conditions
\* of the catalog only "bridgeable" contains it.
ContainsBridgeable(terrain_condition) == terrain_condition = "bridgeable"

-----------------------------------------------------------------------------
(* Python dicts: the sequence of items [k, v] in insertion order. *)

HexKeys(m) == {m[i].k : i \in DOMAIN m}

\* hex_field in self.hex_map
hex_exists(m, hex_field) == \E i \in DOMAIN m : m[i].k = hex_field

HexSlot(m, hex_field) == CHOOSE i \in DOMAIN m : m[i].k = hex_field

\* self.hex_map[hex_field], for a key of the dict
HexItem(m, hex_field) == m[HexSlot(m, hex_field)].v

\* self.hex_map.update({hex_field: value}) and self.hex_map[hex_field] = value
HexUpdate(m, hex_field, value) ==
    IF hex_exists(m, hex_field)
    THEN [m EXCEPT ![HexSlot(m, hex_field)].v = value]
    ELSE Append(m, [k |-> hex_field, v |-> value])

EdgeKeys(m) == {m[i].k : i \in DOMAIN m}

\* edge in self.edge_map: dict lookup by Edge.__hash__ and Edge.__eq__
edge_exists(m, edge) == \E i \in DOMAIN m : EdgeEq(m[i].k, edge)

EdgeSlot(m, edge) == CHOOSE i \in DOMAIN m : EdgeEq(m[i].k, edge)

\* self.edge_map[edge], for a key of the dict
EdgeItem(m, edge) == m[EdgeSlot(m, edge)].v

\* self.edge_map.update({edge: value}) and self.edge_map[edge] = value; an
\* existing key object is kept, only its value is replaced
EdgeUpdate(m, edge, value) ==
    IF edge_exists(m, edge)
    THEN [m EXCEPT ![EdgeSlot(m, edge)].v = value]
    ELSE Append(m, [k |-> edge, v |-> value])

-----------------------------------------------------------------------------
(* src/map_logic.py: class HexMap.  A call that can change the map returns  *)
(* [map |-> the dict after the call, ret |-> its result].                   *)

\* range(a, b + 1) has this many elements
RangeLen(a, b) == IF b >= a THEN b - a + 1 ELSE 0

\* a faulty order of initialize_hex_map whose r_offset is rounded toward 0
InitializeOrderTruncated(left, right, top, bottom) ==
    LET width == RangeLen(left, right)
        height == RangeLen(top, bottom)
    IN  [n \in 1..(width * height) |->
            LET r_axis == top + ((n - 1) \div width)
                r_offset == IF r_axis < 0 THEN 0 - ((0 - r_axis) \div 2)
                            ELSE r_axis \div 2
                q_axis == (left - r_offset) + ((n - 1) % width)
            IN  Hex(q_axis, r_axis)]

\* the hexes initialize_hex_map visits, in the order of its two loops
InitializeOrder(left, right, top, bottom) ==
    LET width == RangeLen(left, right)
        height == RangeLen(top, bottom)
    IN  [n \in 1..(width * height) |->
            LET r_axis == top + ((n - 1) \div width)
                r_offset == r_axis \div 2
                q_axis == (left - r_offset) + ((n - 1) % width)
            IN  Hex(q_axis, r_axis)]

RECURSIVE HexUpdateAll(_, _, _)
HexUpdateAll(m, hexes, i) ==
    IF i > Len(hexes) THEN m
    ELSE HexUpdateAll(HexUpdate(m, hexes[i], <<>>), hexes, i + 1)

\* HexMap.initialize_hex_map
initialize_hex_map(m, left, right, top, bottom) ==
    HexUpdateAll(m, InitializeOrder(left, right, top, bottom), 1)

\* a faulty has_terrain that never finds a Terrain
HasTerrainNever(m, hex_field) == Ok(FALSE)

\* HexMap.has_terrain
has_terrain(m, hex_field) ==
    IF ~hex_exists(m, hex_field) THEN Raise("KeyError")
    ELSE Ok(\E i \in DOMAIN HexItem(m, hex_field) :
                IsTerrain(HexItem(m, hex_field)[i]))

\* a faulty append_object_to_hex that stores the object before it looks for
\* a Terrain
AppendBeforeTest(m, hex_field, game_object) ==
    IF ~hex_exists(m, hex_field)
    THEN [map |-> HexUpdate(m, hex_field, <<game_object>>),
          ret |-> IF IsTerrain(game_object) THEN Raise("KeyError") ELSE None]
    ELSE [map |-> HexUpdate(m, hex_field,
                            Append(HexItem(m, hex_field), game_object)),
          ret |-> IF IsTerrain(game_object) /\ has_terrain(m, hex_field).value
                  THEN Raise("ValueError")
                  ELSE None]

\* HexMap.append_object_to_hex
append_object_to_hex(m, hex_field, game_object) ==
    IF IsTerrain(game_object) /\ has_terrain(m, hex_field).raised # ""
    THEN [map |-> m, ret |-> has_terrain(m, hex_field)]
    ELSE IF IsTerrain(game_object) /\ has_terrain(m, hex_field).value
    THEN [map |-> m, ret |-> Raise("ValueError")]
    ELSE IF hex_exists(m, hex_field)
    THEN [map |-> HexUpdate(m, hex_field,
                            Append(HexItem(m, hex_field), game_object)),
          ret |-> None]
    ELSE [map |-> HexUpdate(m, hex_field, <<game_object>>), ret |-> None]

\* a faulty lookup that stores an empty list under a key it does not find,
\* as a defaultdict would
HexMapWithDefault(m, hex_field) ==
    IF hex_exists(m, hex_field) THEN m
    ELSE Append(m, [k |-> hex_field, v |-> <<>>])

\* what HexMap.get_hex_object_list leaves of the dict: it reads only
HexMapAfterLookup(m, hex_field) == m

\* HexMap.get_hex_object_list
get_hex_object_list(m, hex_field) ==
    IF ~hex_exists(m, hex_field) THEN <<>> ELSE HexItem(m, hex_field)

\* a faulty filter_terrain_types that keeps every terrain type
FilterNothing(data) == DOMAIN data

\* HexMap.filter_terrain_types
filter_terrain_types(data) ==
    {terrain_type \in DOMAIN data : "edgeobject" \notin DOMAIN data[terrain_type]}

\* the loop of HexMap.fill_map_with_terrain from the i-th key on; choices[i]
\* is what random.choice returns for the i-th key
RECURSIVE FillFrom(_, _, _)
FillFrom(m, choices, i) ==
    IF i > Len(m) THEN [map |-> m, ret |-> None]
    ELSE LET r == append_object_to_hex(
                      m, m[i].k,
                      Terrain(choices[i], terrain_data[choices[i]]))
         IN  IF r.ret.raised # "" THEN r
             ELSE FillFrom(r.map, choices, i + 1)

\* HexMap.fill_map_with_terrain
fill_map_with_terrain(m, choices) == FillFrom(m, choices, 1)

-----------------------------------------------------------------------------
(* src/map_logic.py: class EdgeMap *)

RECURSIVE EdgeInitFrom(_, _, _, _)
EdgeInitFrom(em, hm, i, direction) ==
    IF i > Len(hm) THEN em
    ELSE IF direction > 5 THEN EdgeInitFrom(em, hm, i + 1, 0)
    ELSE LET hex_field == hm[i].k
             neighbour_hex == get_neighbour_hex(hex_field, direction)
             edge == Edge(hex_field, neighbour_hex, direction)
         IN  EdgeInitFrom(IF ~edge_exists(em, edge)
                          THEN EdgeUpdate(em, edge, <<>>)
                          ELSE em,
                          hm, i, direction + 1)

\* EdgeMap.initialize_edge_map
initialize_edge_map(em, hm) == EdgeInitFrom(em, hm, 1, 0)

\* a faulty has_terrain that never finds a Terrain
EdgeHasTerrainNever(em, edge) == Ok(FALSE)

\* EdgeMap.has_terrain
edge_has_terrain(em, edge) ==
    IF ~edge_exists(em, edge) THEN Raise("KeyError")
    ELSE Ok(\E i \in DOMAIN EdgeItem(em, edge) :
                IsTerrain(EdgeItem(em, edge)[i]))

\* EdgeMap.append_object_to_edge
append_object_to_edge(em, edge, game_object) ==
    IF IsTerrain(game_object) /\ edge_has_terrain(em, edge).raised # ""
    THEN [map |-> em, ret |-> edge_has_terrain(em, edge)]
    ELSE IF IsTerrain(game_object) /\ edge_has_terrain(em, edge).value
    THEN [map |-> em, ret |-> Raise("ValueError")]
    ELSE IF edge_exists(em, edge)
    THEN [map |-> EdgeUpdate(em, edge,
                             Append(EdgeItem(em, edge), game_object)),
          ret |-> None]
    ELSE [map |-> EdgeUpdate(em, edge, <<game_object>>), ret |-> None]

\* what EdgeMap.get_edge_object_list leaves of the dict: it reads only
EdgeMapAfterLookup(em, edge) == em

\* EdgeMap.get_edge_object_list
get_edge_object_list(em, edge) ==
    IF ~edge_exists(em, edge) THEN Raise("KeyError")
    ELSE Ok(EdgeItem(em, edge))

\* the attributes an EdgeMap object has: the dict and the methods of the
\* class
EdgeMapAttributes ==
    {"edge_map", "initialize_edge_map", "append_object_to_edge",
     "get_edge_object_list", "has_terrain", "print_content_of_all_edges"}

\* edge_map.name: looking up an attribute the object does not have raises
\* AttributeError
EdgeMapAttribute(name) ==
    IF name \in EdgeMapAttributes THEN Ok(name) ELSE Raise("AttributeError")

-----------------------------------------------------------------------------
(* src/move_logic.py: class MoveCalculator *)

\* MoveCalculator.neighbouring_hex_and_edge_objects: the pair
\* <<hex_objects, edge_objects>>
neighbouring_hex_and_edge_objects(hm, em, hex_field, direction) ==
    IF ~hex_exists(hm, hex_field) THEN Ok(<< <<>>, <<>> >>)
    ELSE IF ~DirectionIndexable(direction) THEN Raise("IndexError")
    ELSE IF get_edge_by_direction(hex_field, direction).raised # ""
    THEN get_edge_by_direction(hex_field, direction)
    ELSE LET neighbour_hex == get_neighbour_hex(hex_field, direction)
             edge == get_edge_by_direction(hex_field, direction).value
             edge_objects == get_edge_object_list(em, edge)
         IN  IF edge_objects.raised # "" THEN edge_objects
             ELSE Ok(<<get_hex_object_list(hm, neighbour_hex),
                       edge_objects.value>>)

\* the two dicts after MoveCalculator.neighbouring_hex_and_edge_objects
MapsAfterNeighbouring(hm, em, hex_field, direction) ==
    IF ~hex_exists(hm, hex_field) THEN <<hm, em>>
    ELSE IF ~DirectionIndexable(direction) THEN <<hm, em>>
    ELSE IF get_edge_by_direction(hex_field, direction).raised # ""
    THEN <<HexMapAfterLookup(hm, get_neighbour_hex(hex_field, direction)), em>>
    ELSE <<HexMapAfterLookup(hm, get_neighbour_hex(hex_field, direction)),
           EdgeMapAfterLookup(
               em, get_edge_by_direction(hex_field, direction).value)>>

\* a faulty first loop that never finds a bridge
BridgePresentNever(objects) == FALSE

\* the first loop of get_movement_cost: is there a bridge
BridgePresent(objects) ==
    \E i \in DOMAIN objects :
        /\ IsStructure(objects[i])
        /\ hasattr(objects[i], "structure_condition")
        /\ objects[i].structure_condition = "bridge"

\* a faulty second loop that leaves bridge as it is when it skips a Terrain
RECURSIVE CostLoopBridgeKept(_, _, _, _)
CostLoopBridgeKept(objects, i, summed_movement_cost, bridge) ==
    IF i > Len(objects) THEN <<summed_movement_cost, bridge>>
    ELSE IF IsTerrain(objects[i])
    THEN IF /\ hasattr(objects[i], "terrain_condition")
            /\ ContainsBridgeable(objects[i].terrain_condition)
            /\ bridge
         THEN CostLoopBridgeKept(objects, i + 1, summed_movement_cost, bridge)
         ELSE CostLoopBridgeKept(
                  objects, i + 1,
                  summed_movement_cost + MovementCostOf(objects[i]), bridge)
    ELSE CostLoopBridgeKept(objects, i + 1, summed_movement_cost, bridge)

\* the second loop of get_movement_cost from the i-th object on: the pair
\* <<summed_movement_cost, bridge>> it ends with
RECURSIVE CostLoop(_, _, _, _)
CostLoop(objects, i, summed_movement_cost, bridge) ==
    IF i > Len(objects) THEN <<summed_movement_cost, bridge>>
    ELSE IF IsTerrain(objects[i])
    THEN IF /\ hasattr(objects[i], "terrain_condition")
            /\ ContainsBridgeable(objects[i].terrain_condition)
            /\ bridge
         THEN CostLoop(objects, i + 1, summed_movement_cost, FALSE)
         ELSE CostLoop(objects, i + 1,
                       summed_movement_cost + MovementCostOf(objects[i]),
                       bridge)
    ELSE CostLoop(objects, i + 1, summed_movement_cost, bridge)

\* the statement after the loops of get_movement_cost: game_object is the
\* last object the loop saw, and unbound when there was none
CostOfObjects(objects) ==
    LET after == CostLoop(objects, 1, 0, BridgePresent(objects))
        summed_movement_cost == after[1]
        bridge == after[2]
        game_object == objects[Len(objects)]
    IN  IF Len(objects) = 0 THEN Raise("UnboundLocalError")
        ELSE IF /\ IsStructure(game_object)
                /\ summed_movement_cost + MovementCostOf(game_object) >= 1
                /\ bridge = FALSE
        THEN IF summed_movement_cost + MovementCostOf(game_object) >= 1
             THEN Ok(summed_movement_cost + MovementCostOf(game_object))
             ELSE Ok(1)
        ELSE Ok(summed_movement_cost)

\* MoveCalculator.get_movement_cost
get_movement_cost(hm, em, hex_field, direction) ==
    LET found == neighbouring_hex_and_edge_objects(hm, em, hex_field, direction)
    IN  IF found.raised # "" THEN found
        ELSE CostOfObjects(found.value[1] \o found.value[2])

IsConditionedTerrain(game_object) ==
    IsTerrain(game_object) /\ hasattr(game_object, "terrain_condition")

\* a faulty get_movement_conditions that looks at edge_objects + hex_objects
ConditionsEdgeFirst(hm, em, hex_field, direction) ==
    LET found == neighbouring_hex_and_edge_objects(hm, em, hex_field, direction)
    IN  IF found.raised # "" THEN found
        ELSE LET kept == SelectSeq(found.value[2] \o found.value[1],
                                   IsConditionedTerrain)
             IN  Ok([i \in DOMAIN kept |-> kept[i].terrain_condition])

\* MoveCalculator.get_movement_conditions
get_movement_conditions(hm, em, hex_field, direction) ==
    LET found == neighbouring_hex_and_edge_objects(hm, em, hex_field, direction)
    IN  IF found.raised # "" THEN found
        ELSE LET kept == SelectSeq(found.value[1] \o found.value[2],
                                   IsConditionedTerrain)
             IN  Ok([i \in DOMAIN kept |-> kept[i].terrain_condition])

\* MoveCalculator.is_valid_direction
is_valid_direction(hm, hex_field, direction) ==
    IF ~DirectionIndexable(direction) THEN Raise("IndexError")
    ELSE Ok(hex_exists(hm, get_neighbour_hex(hex_field, direction)))

\* the loop of MoveCalculator.get_neighbours from direction on
RECURSIVE NeighboursFrom(_, _, _)
NeighboursFrom(hm, hex_field, direction) ==
    IF direction > 5 THEN <<>>
    ELSE (IF hex_exists(hm, get_neighbour_hex(hex_field, direction))
          THEN <<get_neighbour_hex(hex_field, direction)>>
          ELSE <<>>) \o NeighboursFrom(hm, hex_field, direction + 1)

\* MoveCalculator.get_neighbours
get_neighbours(hm, hex_field) == NeighboursFrom(hm, hex_field, 0)

\* the loop of MoveCalculator.get_neighbour_conditions from direction on,
\* condition_list being what it has collected
RECURSIVE ConditionsFrom(_, _, _, _, _)
ConditionsFrom(hm, em, hex_field, direction, condition_list) ==
    IF direction > 5 THEN Ok(condition_list)
    ELSE IF ~is_valid_direction(hm, hex_field, direction).value
    THEN ConditionsFrom(hm, em, hex_field, direction + 1, condition_list)
    ELSE LET movement_cost == get_movement_cost(hm, em, hex_field, direction)
             movement_conditions ==
                 get_movement_conditions(hm, em, hex_field, direction)
         IN  IF movement_cost.raised # "" THEN movement_cost
             ELSE IF movement_conditions.raised # "" THEN movement_conditions
             ELSE ConditionsFrom(
                      hm, em, hex_field, direction + 1,
                      Append(condition_list,
                             <<hex_field, direction,
                               get_neighbour_hex(hex_field, direction),
                               movement_cost.value,
                               movement_conditions.value>>))

\* MoveCalculator.get_neighbour_conditions
get_neighbour_conditions(hm, em, hex_field) ==
    ConditionsFrom(hm, em, hex_field, 0, <<>>)

\* MoveCalculator.collect_all_nodes
collect_all_nodes(hm) == [i \in DOMAIN hm |-> hm[i].k]

\* MoveCalculator.collect_neighbours_for_all: the dict node -> neighbours
collect_neighbours_for_all(hm) ==
    [i \in DOMAIN hm |-> [k |-> hm[i].k, v |-> get_neighbours(hm, hm[i].k)]]

\* the loop of MoveCalculator.collect_move_paths from the i-th node on
RECURSIVE MovePathsFrom(_, _, _, _)
MovePathsFrom(hm, em, i, all_move_paths) ==
    IF i > Len(hm) THEN Ok(all_move_paths)
    ELSE LET paths == get_neighbour_conditions(hm, em, hm[i].k)
         IN  IF paths.raised # "" THEN paths
             ELSE MovePathsFrom(hm, em, i + 1, all_move_paths \o paths.value)

\* MoveCalculator.collect_move_paths
collect_move_paths(hm, em) == MovePathsFrom(hm, em, 1, <<>>)

\* the two dicts after the loop of get_neighbour_conditions from direction
\* on: each valid direction looks the neighbour hex and the edge up twice
RECURSIVE MapsAfterConditions(_, _, _, _)
MapsAfterConditions(hm, em, hex_field, direction) ==
    IF direction > 5 THEN <<hm, em>>
    ELSE IF ~is_valid_direction(hm, hex_field, direction).value
    THEN MapsAfterConditions(hm, em, hex_field, direction + 1)
    ELSE IF get_movement_cost(hm, em, hex_field, direction).raised # ""
    THEN MapsAfterNeighbouring(hm, em, hex_field, direction)
    ELSE LET once == MapsAfterNeighbouring(hm, em, hex_field, direction)
             twice == MapsAfterNeighbouring(once[1], once[2], hex_field, direction)
         IN  IF get_movement_conditions(hm, em, hex_field, direction).raised # ""
             THEN twice
             ELSE MapsAfterConditions(twice[1], twice[2], hex_field,
                                      direction + 1)

\* the two dicts after the loop of collect_move_paths from the i-th node on
RECURSIVE MapsAfterMovePaths(_, _, _)
MapsAfterMovePaths(hm, em, i) ==
    IF i > Len(hm) THEN <<hm, em>>
    ELSE LET after == MapsAfterConditions(hm, em, hm[i].k, 0)
         IN  IF get_neighbour_conditions(hm, em, hm[i].k).raised # ""
             THEN after
             ELSE MapsAfterMovePaths(after[1], after[2], i + 1)

-----------------------------------------------------------------------------
(* src/move_logic.py: class Graph *)

NoGraph == [built |-> FALSE]

\* Graph.__init__
NewGraphOf(hm, em) ==
    IF collect_move_paths(hm, em).raised # ""
    THEN collect_move_paths(hm, em)
    ELSE Ok([built |-> TRUE,
             edges |-> collect_move_paths(hm, em).value,
             neighbours |-> collect_neighbours_for_all(hm),
             nodes |-> collect_all_nodes(hm)])

\* the loop of Graph.get_movement_cost from the i-th edge on
RECURSIVE EdgeCostFrom(_, _, _, _)
EdgeCostFrom(edges, node1, node2, i) ==
    IF i > Len(edges) THEN Raise("ValueError")
    ELSE IF edges[i][1] = node1 /\ edges[i][3] = node2 THEN Ok(edges[i][4])
    ELSE EdgeCostFrom(edges, node1, node2, i + 1)

\* a faulty Graph.get_movement_cost that asks the move calculator for the
\* cost of the step as the maps are now
LiveMovementCost(g, node1, node2) ==
    IF hex_direction(node1, node2).raised # "" THEN Raise("ValueError")
    ELSE get_movement_cost(hex_map, edge_map, node1,
                           hex_direction(node1, node2).value)

\* a faulty Graph.get_movement_cost that reads the edge the wrong way round
ReverseEdgeCost(g, node1, node2) == EdgeCostFrom(g.edges, node2, node1, 1)

\* Graph.get_movement_cost
graph_get_movement_cost(g, node1, node2) ==
    EdgeCostFrom(g.edges, node1, node2, 1)

\* self.neighbours.keys()
GraphNodes(g) == {g.neighbours[i].k : i \in DOMAIN g.neighbours}

\* self.neighbours[current_node]
NeighboursOf(g, current_node) ==
    g.neighbours[CHOOSE i \in DOMAIN g.neighbours :
                     g.neighbours[i].k = current_node].v

\* a faulty start of Graph.djikstra that leaves out distances[start_hex] = 0
InitialDistancesAllLarge(g, start) ==
    [node \in GraphNodes(g) \cup {start} |-> LARGE]

\* the first two statements of Graph.djikstra: the dict distances.  Dict
\* equality ignores insertion order, so the dict is modelled as a function.
InitialDistances(g, start) ==
    [node \in GraphNodes(g) \cup {start} |->
        IF node = start THEN 0 ELSE LARGE]

\* the loop of Graph.update_neighbour_distances from the i-th neighbour on
RECURSIVE RelaxFrom(_, _, _, _)
RelaxFrom(g, current_node, dist, i) ==
    IF i > Len(NeighboursOf(g, current_node)) THEN Ok(dist)
    ELSE LET neighbour == NeighboursOf(g, current_node)[i]
             cost == graph_get_movement_cost(g, current_node, neighbour)
         IN  IF neighbour \notin DOMAIN dist
             THEN RelaxFrom(g, current_node, dist, i + 1)
             ELSE IF cost.raised # "" THEN cost
             ELSE IF dist[current_node] + cost.value < dist[neighbour]
             THEN RelaxFrom(g, current_node,
                            [dist EXCEPT
                                ![neighbour] = dist[current_node] + cost.value],
                            i + 1)
             ELSE RelaxFrom(g, current_node, dist, i + 1)

\* a faulty update_neighbour_distances that looks at the last neighbour only
UpdateLastNeighbourOnly(g, current_node, dist) ==
    RelaxFrom(g, current_node, dist, Len(NeighboursOf(g, current_node)))

\* Graph.update_neighbour_distances
update_neighbour_distances(g, current_node, dist) ==
    RelaxFrom(g, current_node, dist, 1)

\* min(unvisited, key=lambda node: distances[node]) returns the first node
\* of least distance in the iteration order of the set, which is not fixed:
\* any node of least distance
IsMinOf(node, nodes, dist) ==
    node \in nodes /\ \A other \in nodes : dist[node] <= dist[other]

-----------------------------------------------------------------------------
(* The calls a client makes, one action per call. *)

\* the last call, with its result
Call(op, args, result) ==
    [op |-> op, args |-> args, raised |-> result.raised,
     value |-> IF result.raised = "" THEN result.value ELSE "None"]

\* the game objects SpecCost appends
Catalog == {Plain, Track, Rock, River, Cliff, Bridge, Road}

\* the game objects Spec appends: a Terrain and a Structure
MapObjects == {Plain, Road}

\* the hexes of the one-row maps of Spec and SpecCost
RowHexes == {Hex(0, 0), Hex(1, 0)}

\* the hexes Spec and SpecCost pass to calls: the row and the hex right of it
HexInputs == RowHexes \cup {Hex(2, 0)}

\* the directions Spec and SpecCost pass to calls: east and west, along the row
RowDirections == {1, 4}

\* the bounds of the maps of Spec and SpecCost: one row of two hexes
RowBounds == <<0, 1, 0, 0>>

\* the chain of scenario S4: north-east, south-east, east
ChainDirections == <<0, 2, 1>>

\* the bounds of a second initialize_hex_map in Spec: the first hex of the row
SingleBounds == <<0, 0, 0, 0>>

\* the bounds Spec passes to initialize_hex_map
MapBounds == {RowBounds, SingleBounds}

\* the bounds of the maps of SpecGraph: two rows of two hexes
GraphBounds == <<0, 1, 0, 1>>

\* the start hexes SpecGraph passes to djikstra: a corner of the map with
\* two neighbours, a hex with three neighbours, a hex outside the map
GraphInputs == {Hex(0, 0), Hex(1, 0), Hex(2, 0)}

\* the cost limits passed to djikstra: small ones, the default, a larger one
Limits == (0..MaxLimit) \cup {LARGE, 2 * LARGE}

\* the hexes SpecHex passes to calls
GridHexes ==
    {Hex(q, r) : q \in (0 - MaxCoordinate)..MaxCoordinate,
                 r \in (0 - MaxCoordinate)..MaxCoordinate}

\* the map bounds SpecHex passes to initialize_hex_map
CoordinateInputs == (0 - MaxCoordinate)..MaxCoordinate

\* the directions SpecHex passes to calls: 0..5, the negative indices of
\* directions_axial and one more at either end
DirectionInputs == -7..6

\* the Edge objects SpecHex compares: Edge(hex_field, neighbour_hex,
\* direction) as initialize_edge_map makes them
EdgeInputs ==
    {Edge(h, get_neighbour_hex(h, d), d) :
         h \in {Hex(0, 0), Hex(1, -1), Hex(-1, 0)}, d \in 0..5}

\* no call has been made or the result of the last one has been taken
NoCall == Call("", <<>>, None)

Idle == pc = "idle"

\* a call that runs to its end in one step: ret holds what it returns
Returns(op, args, result) ==
    /\ pc' = "returned"
    /\ ret' = Call(op, args, result)

\* the client takes the result and goes on
Resume ==
    /\ pc = "returned"
    /\ pc' = "idle"
    /\ ret' = NoCall
    /\ UNCHANGED <<hex_map, edge_map, appended, graph, distances, unvisited>>

InitializeHexMap(left, right, top, bottom) ==
    /\ Idle
    /\ hex_map' = initialize_hex_map(hex_map, left, right, top, bottom)
    /\ Returns("initialize_hex_map", <<left, right, top, bottom>>, None)
    /\ UNCHANGED <<edge_map, appended, graph, distances, unvisited>>

InitializeEdgeMap ==
    /\ Idle
    /\ edge_map' = initialize_edge_map(edge_map, hex_map)
    /\ Returns("initialize_edge_map", <<>>, None)
    /\ UNCHANGED <<hex_map, appended, graph, distances, unvisited>>

AppendObjectToHex(hex_field, game_object) ==
    /\ Idle
    /\ \E r \in {append_object_to_hex(hex_map, hex_field, game_object)} :
        /\ hex_map' = r.map
        /\ appended' = IF r.ret.raised = "" THEN appended + 1 ELSE appended
        /\ Returns("append_object_to_hex", <<hex_field, game_object>>, r.ret)
    /\ UNCHANGED <<edge_map, graph, distances, unvisited>>

\* append_object_to_edge(hex_field.get_edge_by_direction(direction), game_object)
AppendObjectToEdge(hex_field, direction, game_object) ==
    /\ Idle
    /\ \E r \in {append_object_to_edge(
                     edge_map,
                     get_edge_by_direction(hex_field, direction).value,
                     game_object)} :
        /\ edge_map' = r.map
        /\ appended' = IF r.ret.raised = "" THEN appended + 1 ELSE appended
        /\ Returns("append_object_to_edge",
                   <<hex_field, direction, game_object>>, r.ret)
    /\ UNCHANGED <<hex_map, graph, distances, unvisited>>

\* fill_map_with_terrain(game), choices[i] being what random.choice returns
\* for the i-th hex
FillMapWithTerrain(choices) ==
    /\ Idle
    /\ \E r \in {fill_map_with_terrain(hex_map, choices)} :
        /\ hex_map' = r.map
        /\ Returns("fill_map_with_terrain", <<>>, r.ret)
    /\ UNCHANGED <<edge_map, appended, graph, distances, unvisited>>

GetMovementCost(hex_field, direction) ==
    /\ Idle
    /\ Returns("get_movement_cost", <<hex_field, direction>>,
               get_movement_cost(hex_map, edge_map, hex_field, direction))
    /\ \E after \in {MapsAfterNeighbouring(hex_map, edge_map,
                                           hex_field, direction)} :
        hex_map' = after[1] /\ edge_map' = after[2]
    /\ UNCHANGED <<appended, graph, distances, unvisited>>

GetMovementConditions(hex_field, direction) ==
    /\ Idle
    /\ Returns("get_movement_conditions", <<hex_field, direction>>,
               get_movement_conditions(hex_map, edge_map, hex_field, direction))
    /\ \E after \in {MapsAfterNeighbouring(hex_map, edge_map,
                                           hex_field, direction)} :
        hex_map' = after[1] /\ edge_map' = after[2]
    /\ UNCHANGED <<appended, graph, distances, unvisited>>

GetNeighbourConditions(hex_field) ==
    /\ Idle
    /\ Returns("get_neighbour_conditions", <<hex_field>>,
               get_neighbour_conditions(hex_map, edge_map, hex_field))
    /\ \E after \in {MapsAfterConditions(hex_map, edge_map, hex_field, 0)} :
        hex_map' = after[1] /\ edge_map' = after[2]
    /\ UNCHANGED <<appended, graph, distances, unvisited>>

GetNeighbours(hex_field) ==
    /\ Idle
    /\ Returns("get_neighbours", <<hex_field>>,
               Ok(get_neighbours(hex_map, hex_field)))
    /\ UNCHANGED <<hex_map, edge_map, appended, graph, distances, unvisited>>

\* HexMap.get_hex_object_list
GetHexObjectList(hex_field) ==
    /\ Idle
    /\ Returns("get_hex_object_list", <<hex_field>>,
               Ok(get_hex_object_list(hex_map, hex_field)))
    /\ hex_map' = HexMapAfterLookup(hex_map, hex_field)
    /\ UNCHANGED <<edge_map, appended, graph, distances, unvisited>>

\* get_edge_object_list(hex_field.get_edge_by_direction(direction))
GetEdgeObjectList(hex_field, direction) ==
    /\ Idle
    /\ Returns("get_edge_object_list", <<hex_field, direction>>,
               get_edge_object_list(
                   edge_map, get_edge_by_direction(hex_field, direction).value))
    /\ edge_map' = EdgeMapAfterLookup(
                       edge_map,
                       get_edge_by_direction(hex_field, direction).value)
    /\ UNCHANGED <<hex_map, appended, graph, distances, unvisited>>

\* edge_map.append_chain(source_hex, directions, template): class EdgeMap
\* has no such method, the call ends at the attribute lookup
AppendChain(source_hex, directions, template) ==
    /\ Idle
    /\ EdgeMapAttribute("append_chain").raised # ""
    /\ Returns("append_chain", <<source_hex, directions, template>>,
               EdgeMapAttribute("append_chain"))
    /\ UNCHANGED <<hex_map, edge_map, appended, graph, distances, unvisited>>

\* Hex.get_neighbour_hex: indexing directions_axial raises IndexError
GetNeighbourHex(hex_field, direction) ==
    /\ Idle
    /\ Returns("get_neighbour_hex", <<hex_field, direction>>,
               IF ~DirectionIndexable(direction) THEN Raise("IndexError")
               ELSE Ok(get_neighbour_hex(hex_field, direction)))
    /\ UNCHANGED <<hex_map, edge_map, appended, graph, distances, unvisited>>

\* Hex.get_edge_by_direction
GetEdgeByDirection(hex_field, direction) ==
    /\ Idle
    /\ Returns("get_edge_by_direction", <<hex_field, direction>>,
               get_edge_by_direction(hex_field, direction))
    /\ UNCHANGED <<hex_map, edge_map, appended, graph, distances, unvisited>>

\* Hex.hex_direction
HexDirection(hex_field_1, hex_field_2) ==
    /\ Idle
    /\ Returns("hex_direction", <<hex_field_1, hex_field_2>>,
               hex_direction(hex_field_1, hex_field_2))
    /\ UNCHANGED <<hex_map, edge_map, appended, graph, distances, unvisited>>

\* MoveCalculator.is_valid_direction
IsValidDirection(hex_field, direction) ==
    /\ Idle
    /\ Returns("is_valid_direction", <<hex_field, direction>>,
               is_valid_direction(hex_map, hex_field, direction))
    /\ hex_map' = IF DirectionIndexable(direction)
                  THEN HexMapAfterLookup(
                           hex_map, get_neighbour_hex(hex_field, direction))
                  ELSE hex_map
    /\ UNCHANGED <<edge_map, appended, graph, distances, unvisited>>

\* edge_1 == edge_2 by Edge.__eq__, and the tuples Edge.__hash__ hashes
EdgeEquals(edge_1, edge_2) ==
    /\ Idle
    /\ Returns("Edge.__eq__", <<edge_1, edge_2>>,
               Ok([eq |-> EdgeEq(edge_1, edge_2),
                   hash_eq |-> EdgeHashed(edge_1) = EdgeHashed(edge_2)]))
    /\ UNCHANGED <<hex_map, edge_map, appended, graph, distances, unvisited>>

\* Graph(move_calculator); a constructor that raises leaves no new Graph
NewGraph ==
    /\ Idle
    /\ \E r \in {NewGraphOf(hex_map, edge_map)} :
        /\ graph' = IF r.raised = "" THEN r.value ELSE graph
        /\ Returns("Graph", <<>>, IF r.raised = "" THEN None ELSE r)
    /\ \E after \in {MapsAfterMovePaths(hex_map, edge_map, 1)} :
        hex_map' = after[1] /\ edge_map' = after[2]
    /\ UNCHANGED <<appended, distances, unvisited>>

\* Graph.djikstra up to its while loop
DjikstraCall(start, limit) ==
    /\ Idle
    /\ graph.built
    /\ distances' = InitialDistances(graph, start)
    /\ unvisited' = GraphNodes(graph)
    /\ pc' = "loop"
    /\ ret' = Call("djikstra", <<start, limit>>, Ok("running"))
    /\ UNCHANGED <<hex_map, edge_map, appended, graph>>

\* Graph.djikstra: return distances, or an exception leaves it
DjikstraReturn(result) ==
    /\ Returns("djikstra", ret.args, result)
    /\ distances' = <<>>
    /\ unvisited' = {}
    /\ UNCHANGED <<hex_map, edge_map, appended, graph>>

\* Graph.djikstra: one pass of the while loop, or leaving it
DjikstraStep ==
    /\ pc = "loop"
    /\ IF unvisited = {} THEN DjikstraReturn(Ok(distances))
       ELSE \E current_node \in unvisited :
            /\ IsMinOf(current_node, unvisited, distances)
            /\ IF distances[current_node] > ret.args[2]
               THEN DjikstraReturn(Ok(distances))
               ELSE \E r \in {update_neighbour_distances(
                                  graph, current_node, distances)} :
                        IF r.raised # "" THEN DjikstraReturn(r)
                        ELSE /\ distances' = r.value
                             /\ unvisited' = unvisited \ {current_node}
                             /\ UNCHANGED <<hex_map, edge_map, appended,
                                            graph, pc, ret>>

-----------------------------------------------------------------------------
(* Spec: the two maps from their construction on, changed by initialize,    *)
(* append and fill calls, on one row of hexes.                              *)

Init ==
    /\ hex_map = <<>>
    /\ edge_map = <<>>
    /\ appended = 0
    /\ graph = NoGraph
    /\ distances = <<>>
    /\ unvisited = {}
    /\ pc = "idle"
    /\ ret = NoCall

Next ==
    \/ \E b \in MapBounds : InitializeHexMap(b[1], b[2], b[3], b[4])
    \/ InitializeEdgeMap
    \/ \E h \in HexInputs, o \in MapObjects :
           appended < MaxObjects /\ AppendObjectToHex(h, o)
    \/ \E h \in HexInputs, d \in RowDirections, o \in MapObjects :
           appended < MaxObjects /\ AppendObjectToEdge(h, d, o)
    \/ \E choices \in [DOMAIN hex_map -> filter_terrain_types(terrain_data)] :
           FillMapWithTerrain(choices)
    \/ \E h \in HexInputs : GetHexObjectList(h)
    \/ \E h \in HexInputs, d \in RowDirections : GetEdgeObjectList(h, d)
    \/ AppendChain(Hex(0, 0), ChainDirections, Road)
    \/ Resume

Spec == Init /\ [][Next]_vars

-----------------------------------------------------------------------------
(* SpecCost: the evaluator and the reachability engine on an initialised    *)
(* row of two hexes.  Game objects are appended to Hex(1,0) and to the edge *)
(* between the two hexes; the calls ask about the step from Hex(0,0) east   *)
(* into Hex(1,0), the step back, the border and a hex that is not in the    *)
(* map.                                                                     *)

InitCost ==
    /\ hex_map = initialize_hex_map(<<>>, RowBounds[1], RowBounds[2],
                                    RowBounds[3], RowBounds[4])
    /\ edge_map = initialize_edge_map(<<>>, hex_map)
    /\ appended = 0
    /\ graph = NoGraph
    /\ distances = <<>>
    /\ unvisited = {}
    /\ pc = "idle"
    /\ ret = NoCall

NextCost ==
    \/ \E o \in Catalog :
           appended < MaxCostObjects /\ AppendObjectToHex(Hex(1, 0), o)
    \/ \E o \in Catalog :
           appended < MaxCostObjects /\ AppendObjectToEdge(Hex(0, 0), 1, o)
    \/ \E h \in HexInputs, d \in RowDirections : GetMovementCost(h, d)
    \/ \E h \in HexInputs, d \in RowDirections : GetMovementConditions(h, d)
    \/ \E h \in HexInputs : GetNeighbourConditions(h)
    \/ \E h \in HexInputs : GetNeighbours(h)
    \/ NewGraph
    \/ \E start \in HexInputs, limit \in Limits : DjikstraCall(start, limit)
    \/ DjikstraStep
    \/ Resume

SpecCost == InitCost /\ [][NextCost]_vars

-----------------------------------------------------------------------------
(* SpecGraph: the reachability engine on an initialised and filled map of   *)
(* two rows of two hexes with rivers on its inner edges.                    *)

InitGraph ==
    \E choices \in [1..4 -> filter_terrain_types(terrain_data)] :
        /\ hex_map = fill_map_with_terrain(
                         initialize_hex_map(<<>>, GraphBounds[1], GraphBounds[2],
                                            GraphBounds[3], GraphBounds[4]),
                         choices).map
        /\ edge_map = initialize_edge_map(<<>>, hex_map)
        /\ appended = 0
        /\ graph = NoGraph
        /\ distances = <<>>
        /\ unvisited = {}
        /\ pc = "idle"
        /\ ret = NoCall

NextGraph ==
    \/ \E h \in HexKeys(hex_map), d \in 0..5 :
           /\ appended < MaxEdgeObjects
           /\ graph = NoGraph
           /\ is_valid_direction(hex_map, h, d).value
           /\ AppendObjectToEdge(h, d, River)
    \/ \E h \in HexKeys(hex_map), d \in 0..5 :
           /\ is_valid_direction(hex_map, h, d).value
           /\ GetMovementCost(h, d)
    \/ NewGraph
    \/ \E start \in GraphInputs, limit \in Limits : DjikstraCall(start, limit)
    \/ DjikstraStep
    \/ Resume

SpecGraph == InitGraph /\ [][NextGraph]_vars

-----------------------------------------------------------------------------
(* SpecBridge: the evaluator on the row of two hexes with a stream in       *)
(* Hex(1,0) and a river on the edge between the two hexes.  Bridges and     *)
(* roads are appended to that hex and to that edge.                         *)

InitBridge ==
    /\ hex_map = append_object_to_hex(
                     initialize_hex_map(<<>>, RowBounds[1], RowBounds[2],
                                        RowBounds[3], RowBounds[4]),
                     Hex(1, 0), Stream).map
    /\ edge_map = append_object_to_edge(
                      initialize_edge_map(<<>>, hex_map),
                      get_edge_by_direction(Hex(0, 0), 1).value, River).map
    /\ appended = 0
    /\ graph = NoGraph
    /\ distances = <<>>
    /\ unvisited = {}
    /\ pc = "idle"
    /\ ret = NoCall

NextBridge ==
    \/ \E o \in {Bridge, Road} :
           appended < MaxBridgeObjects /\ AppendObjectToHex(Hex(1, 0), o)
    \/ \E o \in {Bridge, Road} :
           appended < MaxBridgeObjects /\ AppendObjectToEdge(Hex(0, 0), 1, o)
    \/ \E h \in HexInputs, d \in RowDirections : GetMovementCost(h, d)
    \/ Resume

SpecBridge == InitBridge /\ [][NextBridge]_vars

-----------------------------------------------------------------------------
(* SpecHex: the geometry of Hex and Edge.  An empty hex map is initialised  *)
(* once, with any bounds, and the calls take their hexes and directions     *)
(* from a small grid around Hex(0,0).                                       *)

InitHex ==
    /\ hex_map = <<>>
    /\ edge_map = <<>>
    /\ appended = 0
    /\ graph = NoGraph
    /\ distances = <<>>
    /\ unvisited = {}
    /\ pc = "idle"
    /\ ret = NoCall

NextHex ==
    \/ \E left \in CoordinateInputs, right \in CoordinateInputs,
          top \in CoordinateInputs, bottom \in CoordinateInputs :
           hex_map = <<>> /\ InitializeHexMap(left, right, top, bottom)
    \/ \E h \in GridHexes, d \in DirectionInputs : GetNeighbourHex(h, d)
    \/ \E h \in GridHexes, d \in DirectionInputs : GetEdgeByDirection(h, d)
    \/ \E h1 \in GridHexes, h2 \in GridHexes : HexDirection(h1, h2)
    \/ \E h \in GridHexes, d \in DirectionInputs : IsValidDirection(h, d)
    \/ \E e1 \in EdgeInputs, e2 \in EdgeInputs : EdgeEquals(e1, e2)
    \/ Resume

SpecHex == InitHex /\ [][NextHex]_vars

-----------------------------------------------------------------------------
(* Properties of the evaluator (SpecCost). *)

\* the call op has ended
Ended(op) == pc = "returned" /\ ret.op = op

\* the contents of the neighbour hex followed by those of the edge, for the
\* get_movement_cost call that has ended
StepObjects ==
    LET found == neighbouring_hex_and_edge_objects(
                     hex_map, edge_map, ret.args[1], ret.args[2]).value
    IN  found[1] \o found[2]

\* C1: for a hex of the map and a direction 0..5 whose neighbour is in the
\* map, the integer get_movement_cost returns is at least 1.
C1_CostAtLeastOne ==
    (/\ Ended("get_movement_cost")
     /\ ret.raised = ""
     /\ hex_exists(hex_map, ret.args[1])
     /\ ret.args[2] \in 0..5
     /\ hex_exists(hex_map, get_neighbour_hex(ret.args[1], ret.args[2])))
    => ret.value >= 1

\* the sum of the reference cost from the i-th object on
RECURSIVE ReferenceSum(_, _, _, _)
ReferenceSum(objects, i, sum, bridge_present) ==
    IF i > Len(objects) THEN sum
    ELSE IF /\ IsTerrain(objects[i])
            /\ hasattr(objects[i], "terrain_condition")
            /\ objects[i].terrain_condition = "bridgeable"
            /\ bridge_present
    THEN ReferenceSum(objects, i + 1, sum, FALSE)
    ELSE ReferenceSum(objects, i + 1, sum + MovementCostOf(objects[i]),
                      bridge_present)

\* the reference cost of the contents H ++ E
ReferenceCost(objects) ==
    LET bridge_present ==
            \E i \in DOMAIN objects :
                /\ IsStructure(objects[i])
                /\ hasattr(objects[i], "structure_condition")
                /\ objects[i].structure_condition = "bridge"
        sum == ReferenceSum(objects, 1, 0, bridge_present)
    IN  IF sum >= 1 THEN sum ELSE 1

\* C2: what get_movement_cost returns is the reference cost of the contents
\* of the neighbour hex followed by those of the edge: a bridgeable Terrain
\* met while a bridge is present is skipped and uses the bridge up, every
\* other Terrain or Structure adds its movement_cost, and the result is
\* max(sum, 1).
C2_CostIsReference ==
    (Ended("get_movement_cost") /\ ret.raised = "")
    => ret.value = ReferenceCost(StepObjects)

\* the edge between Hex(0,0) and Hex(1,0)
RowEdge == get_edge_by_direction(Hex(0, 0), 1).value

\* C3: scenario S3.  With plain in the neighbour hex and river on the edge
\* the step costs 5; once a bridge has been appended to the same edge it
\* costs 1.
C3_BridgeOverRiver ==
    (/\ Ended("get_movement_cost")
     /\ ret.args = <<Hex(0, 0), 1>>
     /\ get_hex_object_list(hex_map, Hex(1, 0)) = <<Plain>>)
    => /\ EdgeItem(edge_map, RowEdge) = <<River>>
          => (ret.raised = "" /\ ret.value = 5)
       /\ EdgeItem(edge_map, RowEdge) = <<River, Bridge>>
          => (ret.raised = "" /\ ret.value = 1)

\* the step of S3 has been asked for after the bridge was appended
C3_BridgedRiverCrossed ==
    /\ Ended("get_movement_cost")
    /\ ret.args = <<Hex(0, 0), 1>>
    /\ get_hex_object_list(hex_map, Hex(1, 0)) = <<Plain>>
    /\ EdgeItem(edge_map, RowEdge) = <<River, Bridge>>
    /\ ret.raised = ""
    /\ ret.value = 1

\* the calls of the evaluator and of the reachability engine
ReadOps ==
    {"get_movement_cost", "get_movement_conditions",
     "get_neighbour_conditions", "get_neighbours", "djikstra"}

\* C8: get_movement_cost, get_movement_conditions, get_neighbour_conditions,
\* get_neighbours and djikstra leave hex_map and edge_map as they are: the
\* keys, their order and every content list.
C8_ReadsLeaveMaps ==
    [][((pc' = "returned" /\ ret'.op \in ReadOps) \/ pc' = "loop")
       => (hex_map' = hex_map /\ edge_map' = edge_map)]_vars

\* get_movement_cost has been asked about a border direction: the neighbour
\* of Hex(1,0) to the east is not in the map
C8_BorderAsked ==
    /\ Ended("get_movement_cost")
    /\ ret.args = <<Hex(1, 0), 1>>
    /\ hex_exists(hex_map, Hex(1, 0))
    /\ ~hex_exists(hex_map, Hex(2, 0))

-----------------------------------------------------------------------------
(* Properties of the reachability engine (SpecGraph).  In SpecGraph no game *)
(* object is appended once the Graph is built, so the Graph holds the move  *)
(* costs of the maps as they are.                                           *)

\* djikstra has returned its dict
DjikstraEnded == Ended("djikstra") /\ ret.raised = ""

\* hex_field_2 is a neighbour of hex_field_1
Adjacent(hex_field_1, hex_field_2) ==
    hex_direction(hex_field_1, hex_field_2).raised = ""

\* get_movement_cost for the step from a hex into an adjacent hex
StepCost(hm, em, hex_field_1, hex_field_2) ==
    get_movement_cost(hm, em, hex_field_1,
                      hex_direction(hex_field_1, hex_field_2).value)

\* one more step: what PathCostsWithin adds to shorter, the path costs for
\* one step less, from the i-th hex of the map on
RECURSIVE ExtendFrom(_, _, _, _, _)
ExtendFrom(hm, em, shorter, i, extended) ==
    IF i > Len(hm) THEN extended
    ELSE ExtendFrom(
             hm, em, shorter, i + 1,
             Append(extended,
                    shorter[i] \cup
                    UNION {{c + StepCost(hm, em, hm[j].k, hm[i].k).value :
                                c \in shorter[j]} :
                           j \in {n \in DOMAIN hm :
                                     /\ Adjacent(hm[n].k, hm[i].k)
                                     /\ StepCost(hm, em, hm[n].k,
                                                 hm[i].k).raised = ""}}))

\* for the i-th hex of the map, the total costs of the paths from source to
\* it that have at most steps steps and stay in the map
RECURSIVE PathCostsWithin(_, _, _, _)
PathCostsWithin(hm, em, source, steps) ==
    IF steps = 0
    THEN [i \in DOMAIN hm |-> IF hm[i].k = source THEN {0} ELSE {}]
    ELSE ExtendFrom(hm, em, PathCostsWithin(hm, em, source, steps - 1),
                    1, <<>>)

\* a path of least cost visits no hex twice
PathCosts(hm, em, source) == PathCostsWithin(hm, em, source, Len(hm) - 1)

MinOf(costs) == CHOOSE c \in costs : \A other \in costs : c <= other

C5_BeyondLimitIsLarge ==
    (DjikstraEnded /\ hex_exists(hex_map, ret.args[1]))
    => LET costs == PathCosts(hex_map, edge_map, ret.args[1])
       IN  \A i \in DOMAIN hex_map :
               (costs[i] = {} \/ MinOf(costs[i]) > ret.args[2])
               => ret.value[hex_map[i].k] = LARGE

C7_SourceIsZero ==
    DjikstraEnded => ret.value[ret.args[1]] = 0

\* djikstra has returned after visiting a neighbour of the source, whose
\* relaxation looked at the source again
C7_SourceRelaxedAgain ==
    /\ DjikstraEnded
    /\ hex_exists(hex_map, ret.args[1])
    /\ ret.value[ret.args[1]] = 0
    /\ \E v \in HexKeys(hex_map) :
        /\ Adjacent(v, ret.args[1])
        /\ ret.value[v] > 0
        /\ ret.value[v] <= ret.args[2]

-----------------------------------------------------------------------------
(* Properties of the maps (Spec). *)

\* how many Terrain objects a content list holds
TerrainCount(objects) ==
    Cardinality({i \in DOMAIN objects : IsTerrain(objects[i])})

StructureCount(objects) ==
    Cardinality({i \in DOMAIN objects : IsStructure(objects[i])})

\* C9: invariant I2.  Every hex of hex_map holds at most one Terrain.
C9_OneTerrainPerHex ==
    \A i \in DOMAIN hex_map : TerrainCount(hex_map[i].v) <= 1

\* a Terrain has been refused by a hex that holds a Terrain and a Structure
C9_TerrainRefused ==
    /\ Ended("append_object_to_hex")
    /\ ret.raised = "ValueError"
    /\ IsTerrain(ret.args[2])
    /\ TerrainCount(get_hex_object_list(hex_map, ret.args[1])) = 1
    /\ StructureCount(get_hex_object_list(hex_map, ret.args[1])) >= 1

\* C10: invariant I4.  Every edge of edge_map holds at most one Terrain,
\* whichever of its two hexes the append calls name it by.
C10_OneTerrainPerEdge ==
    \A i \in DOMAIN edge_map : TerrainCount(edge_map[i].v) <= 1

\* a Terrain has been refused by an edge named from its second hex: the key
\* of the edge was made from its first hex
C10_TerrainRefusedFromOtherEnd ==
    /\ Ended("append_object_to_edge")
    /\ ret.raised = "ValueError"
    /\ IsTerrain(ret.args[3])
    /\ ret.args[1] = Hex(1, 0)
    /\ ret.args[2] = 4
    /\ \E i \in DOMAIN edge_map :
        /\ EdgeEq(edge_map[i].k, RowEdge)
        /\ edge_map[i].k.spawn_hex = Hex(0, 0)
        /\ TerrainCount(edge_map[i].v) = 1

\* C11: scenario S2.  append_object_to_hex with a Terrain for a hex that
\* holds a Terrain raises ValueError, and leaves every content list and the
\* keys of hex_map as they were.
C11_DuplicateTerrainFails ==
    [][(/\ pc' = "returned"
        /\ ret'.op = "append_object_to_hex"
        /\ IsTerrain(ret'.args[2])
        /\ TerrainCount(get_hex_object_list(hex_map, ret'.args[1])) >= 1)
       => (ret'.raised = "ValueError" /\ hex_map' = hex_map)]_vars

\* plain has been refused by Hex(0,0), which holds a Terrain and nothing else
C11_PlainRefused ==
    /\ Ended("append_object_to_hex")
    /\ ret.args = <<Hex(0, 0), Plain>>
    /\ ret.raised = "ValueError"
    /\ Len(get_hex_object_list(hex_map, Hex(0, 0))) = 1
    /\ TerrainCount(get_hex_object_list(hex_map, Hex(0, 0))) = 1

\* C12: append_object_to_hex for a hex that is not a key of hex_map fails,
\* for a Terrain and for a Structure, and leaves hex_map as it was.
C12_MissingHexFails ==
    [][(/\ pc' = "returned"
        /\ ret'.op = "append_object_to_hex"
        /\ ~hex_exists(hex_map, ret'.args[1]))
       => (ret'.raised # "" /\ hex_map' = hex_map)]_vars

\* the hexes initialize_hex_map makes in Spec
InitializedHexes ==
    {InitializeOrder(RowBounds[1], RowBounds[2], RowBounds[3], RowBounds[4])[n] :
         n \in 1..(RangeLen(RowBounds[1], RowBounds[2])
                   * RangeLen(RowBounds[3], RowBounds[4]))}

\* C13: invariant I1.  Every key of hex_map is a hex that initialize_hex_map
\* has made; appends and lookups add no key.
C13_KeysFromInitialize ==
    HexKeys(hex_map) \subseteq InitializedHexes

\* the two hexes of an edge
EdgeEnds(edge) == {edge.hex_field_1, edge.hex_field_2}

\* every edge of every hex of the map is a key of edge_map
EdgeMapInitialized ==
    \A i \in DOMAIN hex_map, d \in 0..5 :
        \E j \in DOMAIN edge_map :
            EdgeEnds(edge_map[j].k)
                = {hex_map[i].k, get_neighbour_hex(hex_map[i].k, d)}

\* C14: invariant I3.  Once edge_map is initialised for the hexes of the
\* map, both hexes of every key of edge_map are hexes of the map.
C14_EdgeEndsInMap ==
    (hex_map # <<>> /\ EdgeMapInitialized)
    => \A j \in DOMAIN edge_map :
           /\ hex_exists(hex_map, edge_map[j].k.hex_field_1)
           /\ hex_exists(hex_map, edge_map[j].k.hex_field_2)

\* C15: initialize_edge_map on an empty edge map makes exactly one key for
\* every pair of neighbours that are both hexes of the map, and no key both
\* of whose hexes are outside the map.
C15_OneKeyPerBoundary ==
    [][(/\ edge_map = <<>>
        /\ pc' = "returned"
        /\ ret'.op = "initialize_edge_map")
       => /\ \A h1 \in HexKeys(hex_map), h2 \in HexKeys(hex_map) :
                 Adjacent(h1, h2)
                 => Cardinality({j \in DOMAIN edge_map' :
                                    EdgeEnds(edge_map'[j].k) = {h1, h2}}) = 1
          /\ \A j \in DOMAIN edge_map' :
                 \/ hex_exists(hex_map, edge_map'[j].k.hex_field_1)
                 \/ hex_exists(hex_map, edge_map'[j].k.hex_field_2)]_vars

\* initialize_edge_map has made the eleven edges of the row of two hexes,
\* the one between them once
C15_RowInitialized ==
    /\ Ended("initialize_edge_map")
    /\ HexKeys(hex_map) = RowHexes
    /\ Len(edge_map) = 11
    /\ \A j \in DOMAIN edge_map : edge_map[j].v = <<>>
    /\ Cardinality({j \in DOMAIN edge_map :
                       EdgeEnds(edge_map[j].k) = RowHexes}) = 1

-----------------------------------------------------------------------------
(* Properties of the geometry (SpecHex). *)

C17_EdgeRemembersSpawn ==
    (Ended("get_edge_by_direction") /\ ret.args[2] \in 0..5)
    => /\ ret.raised = ""
       /\ EdgeEnds(ret.value)
              = {ret.args[1], get_neighbour_hex(ret.args[1], ret.args[2])}
       /\ ret.value.spawn_hex = ret.args[1]
       /\ ret.value.spawn_direction = ret.args[2]

\* C18: hex_direction of a hex and its neighbour in direction d, d in 0..5,
\* is d; for two hexes that are not neighbours, a hex and itself included,
\* hex_direction raises ValueError.
C18_DirectionRoundTrip ==
    Ended("hex_direction")
    => /\ \A d \in 0..5 :
              ret.args[2] = get_neighbour_hex(ret.args[1], d)
              => (ret.raised = "" /\ ret.value = d)
       /\ (\A d \in 0..5 : ret.args[2] # get_neighbour_hex(ret.args[1], d))
          => ret.raised = "ValueError"

\* hex_direction has found the south-west neighbour of Hex(0,0)
C18_SouthWestFound ==
    /\ Ended("hex_direction")
    /\ ret.args = <<Hex(0, 0), get_neighbour_hex(Hex(0, 0), 3)>>
    /\ ret.raised = ""
    /\ ret.value = 3

\* C19: get_neighbour_hex, get_edge_by_direction and is_valid_direction
\* raise for every direction outside 0..5, the negative ones included.
C19_BadDirectionFails ==
    (/\ pc = "returned"
     /\ ret.op \in {"get_neighbour_hex", "get_edge_by_direction",
                    "is_valid_direction"}
     /\ ret.args[2] \notin 0..5)
    => ret.raised # ""

\* floor(r / 2), rounding toward minus infinity
FloorHalf(r) ==
    CHOOSE k \in (0 - (MaxCoordinate + 1))..(MaxCoordinate + 1) :
        2 * k <= r /\ r < 2 * k + 2

\* C20: initialize_hex_map(left, right, top, bottom) on an empty map, with
\* left <= right and top <= bottom, makes exactly the keys Hex(q, r) with
\* top <= r <= bottom and left - floor(r/2) <= q <= right - floor(r/2),
\* each with an empty list: (bottom-top+1) * (right-left+1) hexes.
C20_InitializedKeys ==
    [][(/\ hex_map = <<>>
        /\ pc' = "returned"
        /\ ret'.op = "initialize_hex_map"
        /\ ret'.args[1] <= ret'.args[2]
        /\ ret'.args[3] <= ret'.args[4])
       => /\ HexKeys(hex_map')
                 = UNION {{Hex(q, r) :
                               q \in (ret'.args[1] - FloorHalf(r))
                                     ..(ret'.args[2] - FloorHalf(r))} :
                          r \in ret'.args[3]..ret'.args[4]}
          /\ \A i \in DOMAIN hex_map' : hex_map'[i].v = <<>>
          /\ Len(hex_map') = (ret'.args[4] - ret'.args[3] + 1)
                             * (ret'.args[2] - ret'.args[1] + 1)]_vars

\* initialize_hex_map(-1, 1, -1, 1) has made Hex(2,-1) and not Hex(-1,-1)
C20_UpperRowShifted ==
    /\ Ended("initialize_hex_map")
    /\ ret.args = <<-1, 1, -1, 1>>
    /\ Len(hex_map) = 9
    /\ hex_exists(hex_map, Hex(2, -1))
    /\ ~hex_exists(hex_map, Hex(-1, -1))

\* the keys of a dict in insertion order
KeyOrder(m) == [i \in DOMAIN m |-> m[i].k]

\* the hexes of bounds b
HexesOf(b) ==
    {InitializeOrder(b[1], b[2], b[3], b[4])[n] :
         n \in 1..(RangeLen(b[1], b[2]) * RangeLen(b[3], b[4]))}

\* C21: initialize_hex_map called on a map that an earlier call has made,
\* with the same or with other bounds, leaves exactly the hexes of the new
\* bounds as keys, each with an empty list; with the same bounds the keys
\* are those the map had.
C21_SecondInitializeResets ==
    [][(/\ pc' = "returned"
        /\ ret'.op = "initialize_hex_map"
        /\ \E b \in MapBounds :
               KeyOrder(hex_map) = InitializeOrder(b[1], b[2], b[3], b[4]))
       => /\ HexKeys(hex_map') = HexesOf(ret'.args)
          /\ \A i \in DOMAIN hex_map' : hex_map'[i].v = <<>>
          /\ KeyOrder(hex_map) = InitializeOrder(ret'.args[1], ret'.args[2],
                                                 ret'.args[3], ret'.args[4])
             => HexKeys(hex_map') = HexKeys(hex_map)]_vars

-----------------------------------------------------------------------------
(* Properties of the evaluator, continued (SpecCost). *)

\* the terrain_condition values of a content list from its i-th object on:
\* of every Terrain that has the attribute, in stored order
RECURSIVE ConditionsIn(_, _)
ConditionsIn(objects, i) ==
    IF i > Len(objects) THEN <<>>
    ELSE IF /\ objects[i].cls = "Terrain"
            /\ "terrain_condition" \in DOMAIN objects[i]
    THEN <<objects[i].terrain_condition>> \o ConditionsIn(objects, i + 1)
    ELSE ConditionsIn(objects, i + 1)

\* the contents of the hex next to hex_field in direction
NeighbourContents(hex_field, direction) ==
    get_hex_object_list(hex_map, get_neighbour_hex(hex_field, direction))

\* the contents of the edge of hex_field in direction; nothing for an edge
\* that is not a key of edge_map
EdgeContents(hex_field, direction) ==
    LET edge == Edge(hex_field, get_neighbour_hex(hex_field, direction),
                     direction)
    IN  IF edge_exists(edge_map, edge) THEN EdgeItem(edge_map, edge) ELSE <<>>

RECURSIVE TuplesFrom(_, _)
TuplesFrom(hex_field, direction) ==
    IF direction > 5 THEN <<>>
    ELSE (IF get_neighbour_hex(hex_field, direction) \in HexKeys(hex_map)
          THEN << <<hex_field, direction,
                    get_neighbour_hex(hex_field, direction),
                    get_movement_cost(hex_map, edge_map, hex_field,
                                      direction).value,
                    get_movement_conditions(hex_map, edge_map, hex_field,
                                            direction).value>> >>
          ELSE <<>>) \o TuplesFrom(hex_field, direction + 1)

\* C23: get_neighbour_conditions(h) returns one tuple for each direction d
\* in 0..5 whose neighbour hex is in the hex map and none for any other, in
\* ascending d, each tuple being (h, d, get_neighbour_hex(h, d),
\* get_movement_cost(h, d), get_movement_conditions(h, d)).
C23_TuplePerValidDirection ==
    Ended("get_neighbour_conditions")
    => /\ ret.raised = ""
       /\ ret.value = TuplesFrom(ret.args[1], 0)

-----------------------------------------------------------------------------
(* Properties of the step cost on maps that hold Terrain only (SpecGraph). *)

\* no content list of either map holds anything but Terrain
TerrainOnlyMaps ==
    /\ \A i \in DOMAIN hex_map : StructureCount(hex_map[i].v) = 0
    /\ \A i \in DOMAIN edge_map : StructureCount(edge_map[i].v) = 0

\* what the Terrain of a content list costs, from its i-th object on; a
\* Terrain without movement_cost costs 10000
RECURSIVE TerrainCostFrom(_, _)
TerrainCostFrom(objects, i) ==
    IF i > Len(objects) THEN 0
    ELSE (IF objects[i].cls # "Terrain" THEN 0
          ELSE IF "movement_cost" \in DOMAIN objects[i]
          THEN objects[i].movement_cost
          ELSE 10000) + TerrainCostFrom(objects, i + 1)

\* the hex the get_movement_cost call that has ended steps into
StepTarget == get_neighbour_hex(ret.args[1], ret.args[2])

\* get_movement_cost for the step back
StepBack == StepCost(hex_map, edge_map, StepTarget, ret.args[1])

-----------------------------------------------------------------------------
(* Properties of the maps, continued (Spec). *)

\* the hex a chain has reached after n of its directions
RECURSIVE ChainHex(_, _, _)
ChainHex(source_hex, directions, n) ==
    IF n = 0 THEN source_hex
    ELSE get_neighbour_hex(ChainHex(source_hex, directions, n - 1),
                           directions[n])

\* a clone of a template under a name of its own
Named(template, name) ==
    [a \in DOMAIN template \cup {"name"} |->
        IF a = "name" THEN name ELSE template[a]]

\* C25: scenario S4.  append_chain(Hex(0,0), [0, 2, 1], road) returns and
\* has appended a clone of the template, named road1, road2, road3, to the
\* edge of each direction in turn, moving on to the neighbour each time:
\* the edges (0,0)-(1,-1), (1,-1)-(1,0), (1,0)-(2,0).
C25_ChainInserted ==
    [][(/\ pc' = "returned"
        /\ ret'.op = "append_chain"
        /\ ret'.args = <<Hex(0, 0), ChainDirections, Road>>)
       => /\ ret'.raised = ""
          /\ ChainHex(Hex(0, 0), ChainDirections, 3) = Hex(2, 0)
          /\ \A n \in 1..3 :
                 LET edge == Edge(ChainHex(Hex(0, 0), ChainDirections, n - 1),
                                  ChainHex(Hex(0, 0), ChainDirections, n),
                                  ChainDirections[n])
                     name == <<"road1", "road2", "road3">>[n]
                 IN  /\ edge_exists(edge_map', edge)
                     /\ EdgeItem(edge_map', edge)
                            = (IF edge_exists(edge_map, edge)
                               THEN EdgeItem(edge_map, edge)
                               ELSE <<>>) \o <<Named(Road, name)>>]_vars

\* C26: get_hex_object_list returns the empty list for a hex that is not a
\* key of hex_map and the stored list, in insertion order, for one that is;
\* get_edge_object_list returns a list for every edge, one that is not a
\* key of edge_map included, and the stored list for one that is.
C26_LookupNeverFails ==
    /\ Ended("get_hex_object_list")
       => /\ ret.raised = ""
          /\ ~hex_exists(hex_map, ret.args[1]) => ret.value = <<>>
          /\ hex_exists(hex_map, ret.args[1])
             => ret.value = HexItem(hex_map, ret.args[1])
    /\ Ended("get_edge_object_list")
       => /\ ret.raised = ""
          /\ edge_exists(edge_map, Edge(ret.args[1],
                                        get_neighbour_hex(ret.args[1], ret.args[2]),
                                        ret.args[2]))
             => ret.value = EdgeItem(edge_map,
                                     Edge(ret.args[1],
                                          get_neighbour_hex(ret.args[1],
                                                            ret.args[2]),
                                          ret.args[2]))

\* C27: fill_map_with_terrain on a map whose lists are all empty returns
\* and leaves in every hex exactly one game object, a Terrain of a type of
\* the catalog that does not carry edgeobject, whatever random.choice
\* picks; the keys stay as they are.
C27_FillPlacesHexTerrain ==
    [][(/\ pc' = "returned"
        /\ ret'.op = "fill_map_with_terrain"
        /\ \A i \in DOMAIN hex_map : hex_map[i].v = <<>>)
       => /\ ret'.raised = ""
          /\ KeyOrder(hex_map') = KeyOrder(hex_map)
          /\ \A i \in DOMAIN hex_map' :
                 /\ Len(hex_map'[i].v) = 1
                 /\ hex_map'[i].v[1].cls = "Terrain"
                 /\ hex_map'[i].v[1].terrain_type \in DOMAIN terrain_data
                 /\ hex_map'[i].v[1].terrain_type \notin {"river", "cliff", "stream"}
                 /\ "edgeobject" \notin DOMAIN hex_map'[i].v[1]]_vars

\* the fill has put a plain into the first hex of the row and a terrain
\* without a movement cost into the second
C27_RowFilled ==
    /\ Ended("fill_map_with_terrain")
    /\ ret.raised = ""
    /\ KeyOrder(hex_map) = <<Hex(0, 0), Hex(1, 0)>>
    /\ hex_map[1].v = <<Plain>>
    /\ hex_map[2].v = <<Rock>>

-----------------------------------------------------------------------------
(* Properties of a step without game objects (SpecCost). *)

\* the step from hex_field in direction meets no game object: the
\* neighbour hex and the edge are both empty
EmptyStep(hex_field, direction) ==
    /\ NeighbourContents(hex_field, direction) = <<>>
    /\ EdgeContents(hex_field, direction) = <<>>

\* C28: for a hex of the map and a direction whose neighbour hex and edge
\* hold nothing, get_movement_cost returns 1; and Graph(move_calculator)
\* is built over a map that has such a step between two of its hexes.
C28_EmptyStepCostsOne ==
    /\ (/\ Ended("get_movement_cost")
        /\ hex_exists(hex_map, ret.args[1])
        /\ EmptyStep(ret.args[1], ret.args[2]))
       => (ret.raised = "" /\ ret.value = 1)
    /\ (/\ Ended("Graph")
        /\ \E h \in HexKeys(hex_map), d \in 0..5 :
               /\ hex_exists(hex_map, get_neighbour_hex(h, d))
               /\ EmptyStep(h, d))
       => (ret.raised = "" /\ graph.built)

-----------------------------------------------------------------------------
(* Properties of bridges (SpecBridge). *)

\* how many bridges a content list holds
BridgeCount(objects) ==
    Cardinality({i \in DOMAIN objects :
                    /\ objects[i].cls = "Structure"
                    /\ "structure_condition" \in DOMAIN objects[i]
                    /\ objects[i].structure_condition = "bridge"})

\* the Terrain of a content list that holds one
TerrainOf(objects) ==
    objects[CHOOSE i \in DOMAIN objects : objects[i].cls = "Terrain"]

\* a content list holds a Terrain whose condition is bridgeable
HoldsBridgeable(objects) ==
    \E i \in DOMAIN objects :
        /\ objects[i].cls = "Terrain"
        /\ "terrain_condition" \in DOMAIN objects[i]
        /\ objects[i].terrain_condition = "bridgeable"

-----------------------------------------------------------------------------
(* Properties of the Graph as a snapshot (SpecCost). *)

\* the cost the Graph has stored for the step from node1 into node2: the
\* fourth item of the first tuple of g.edges that starts in node1 and ends
\* in node2
SnapshotCost(g, node1, node2) ==
    g.edges[CHOOSE i \in DOMAIN g.edges :
                /\ g.edges[i][1] = node1
                /\ g.edges[i][3] = node2
                /\ \A j \in 1..(i - 1) :
                       ~(g.edges[j][1] = node1 /\ g.edges[j][3] = node2)][4]

\* the neighbours the Graph has stored for node, as a set
SnapshotNeighbours(g, node) ==
    {g.neighbours[i].v[n] :
         i \in {k \in DOMAIN g.neighbours : g.neighbours[k].k = node},
         n \in 1..Len(NeighboursOf(g, node))}

\* the distances after node has been visited
SnapshotRelaxed(g, dist, node) ==
    [v \in DOMAIN dist |->
        IF /\ v \in SnapshotNeighbours(g, node)
           /\ dist[node] + SnapshotCost(g, node, v) < dist[v]
        THEN dist[node] + SnapshotCost(g, node, v)
        ELSE dist[v]]

\* the distances a search ends with that visits the nodes of left in the
\* order of their distance and stops beyond limit
RECURSIVE SnapshotSearch(_, _, _, _)
SnapshotSearch(g, dist, left, limit) ==
    IF left = {} THEN dist
    ELSE LET node == CHOOSE n \in left : \A m \in left : dist[n] <= dist[m]
         IN  IF dist[node] > limit THEN dist
             ELSE SnapshotSearch(g, SnapshotRelaxed(g, dist, node),
                                 left \ {node}, limit)

\* what the nodes, neighbours and costs stored in the Graph give for a
\* search from start
SnapshotDistances(g, start, limit) ==
    SnapshotSearch(g,
                   [node \in {g.neighbours[i].k : i \in DOMAIN g.neighbours}
                              \cup {start} |->
                        IF node = start THEN 0 ELSE 10000],
                   {g.neighbours[i].k : i \in DOMAIN g.neighbours},
                   limit)

\* the append calls
AppendOps == {"append_object_to_hex", "append_object_to_edge"}

\* C30: an append call leaves the Graph as it was built, and what djikstra
\* returns is what the nodes, neighbours and costs stored in the Graph
\* give; so appends after Graph(move_calculator) do not change the result
\* of djikstra(source, cost_limit).
C30_GraphKeepsItsCosts ==
    [][/\ (pc' = "returned" /\ ret'.op \in AppendOps) => graph' = graph
       /\ (pc' = "returned" /\ ret'.op = "djikstra" /\ ret'.raised = "")
          => /\ graph' = graph
             /\ ret'.value
                    = SnapshotDistances(graph, ret'.args[1], ret'.args[2])]_vars

\* djikstra has returned the cost the Graph was built with, 4 for the
\* river on the edge, after a plain was appended to Hex(1,0): the step
\* costs 5 now
C30_StaleCostReturned ==
    /\ DjikstraEnded
    /\ ret.args[1] = Hex(0, 0)
    /\ ret.args[2] = LARGE
    /\ ret.value[Hex(1, 0)] = 4
    /\ get_hex_object_list(hex_map, Hex(1, 0)) = <<Plain>>
    /\ EdgeContents(Hex(0, 0), 1) = <<River>>
    /\ get_movement_cost(hex_map, edge_map, Hex(0, 0), 1).value = 5

====
